---- MODULE Spec2Model ----
(***************************************************************************)
(* The chart windowing and zoom engine of frontend/src/App.tsx: the state  *)
(* of App (query, result, error, loading, currentPage, requests in flight) *)
(* and of HomePage (windowStart, zoomRange, the passive effect keyed on    *)
(* result), the views HomePage derives on every render, and one action per *)
(* event handler.                                                          *)
(*                                                                         *)
(* Strings are sequences of one-character strings, so that split, slice    *)
(* and trim are computed character by character as the code computes them. *)
(* Prices are integers in hundredths of a unit.                            *)
(***************************************************************************)
EXTENDS Integers, Sequences, FiniteSets, TLC

VARIABLES query, result, error, loading, currentPage, pending,
          windowStart, zoomRange, effectPending, hitClicks, hist

vars == <<query, result, error, loading, currentPage, pending,
          windowStart, zoomRange, effectPending, hitClicks, hist>>

(* ------------------------------ bounds --------------------------------- *)

\* most months a served series spans
MaxMonths == 6
\* most requests in flight at one time
MaxInFlight == 2

(* --------------------------- program constants ------------------------- *)

monthsToShow == 4
ZoomBack == 3
ZoomWidth == 7
MonthKeyLen == 7

(* ------------------------------ arithmetic ----------------------------- *)

Max(a, b) == IF a >= b THEN a ELSE b

Min(a, b) == IF a <= b THEN a ELSE b

(* ------------------------------- strings ------------------------------- *)

Digits == <<"0", "1", "2", "3", "4", "5", "6", "7", "8", "9">>

TwoDigits(n) == <<Digits[((n \div 10) % 10) + 1], Digits[(n % 10) + 1]>>

FourDigits(n) == TwoDigits(n \div 100) \o TwoDigits(n % 100)

\* the "YYYY-MM-DD" form of HistoricalDataPoint.date
DateStr(y, m, d) == FourDigits(y) \o <<"-">> \o TwoDigits(m) \o <<"-">> \o TwoDigits(d)

\* Array.prototype.slice / String.prototype.slice(a, b): negative indices count
\* from the end, both ends are clamped to the length
SliceIndex(i, len) == IF i < 0 THEN Max(len + i, 0) ELSE Min(i, len)

Slice(s, a, b) ==
    LET from == SliceIndex(a, Len(s))
        to == SliceIndex(b, Len(s))
    IN  IF to <= from THEN <<>> ELSE SubSeq(s, from + 1, to)

\* String.prototype.split(sep) for a one-character separator
RECURSIVE SplitFrom(_, _, _)
SplitFrom(s, sep, cur) ==
    IF s = <<>> THEN <<cur>>
    ELSE IF Head(s) = sep THEN <<cur>> \o SplitFrom(Tail(s), sep, <<>>)
    ELSE SplitFrom(Tail(s), sep, Append(cur, Head(s)))

Split(s, sep) == SplitFrom(s, sep, <<>>)

\* String.prototype.trim
RECURSIVE TrimLeft(_)
TrimLeft(s) == IF s # <<>> /\ Head(s) = " " THEN TrimLeft(Tail(s)) ELSE s

RECURSIVE TrimRight(_)
TrimRight(s) ==
    IF s # <<>> /\ s[Len(s)] = " " THEN TrimRight(SubSeq(s, 1, Len(s) - 1)) ELSE s

Trim(s) == TrimRight(TrimLeft(s))

\* formatDate putting the day before the month
formatDateDayFirst(dateStr) ==
    IF dateStr = <<>> THEN <<>>
    ELSE LET parts == Split(dateStr, "-")
         IN  IF Len(parts) # 3 THEN dateStr
             ELSE parts[3] \o <<"/">> \o parts[2] \o <<"/">> \o parts[1]

formatDate(dateStr) ==
    IF dateStr = <<>> THEN <<>>
    ELSE LET parts == Split(dateStr, "-")
         IN  IF Len(parts) # 3 THEN dateStr
             ELSE parts[2] \o <<"/">> \o parts[3] \o <<"/">> \o parts[1]

(* ------------------------------ responses ------------------------------ *)

\* served series hold one point in their odd months and two in their even
\* ones, the first month being January 2024: the k-th month (from 0) starts
\* after PointsBefore(k) points
PointsBefore(k) == k + (k \div 2)

MonthOfPoint(i) == CHOOSE k \in 0..i : PointsBefore(k) < i /\ i <= PointsBefore(k + 1)

PointAt(i) ==
    LET k == MonthOfPoint(i)
    IN  [date |-> DateStr(2024 + (k \div 12), (k % 12) + 1, i - PointsBefore(k)),
         actual |-> 10000 + 137 * i,
         predicted |-> 10050 + 91 * i]

SeriesOf(nMonths) == [i \in 1..PointsBefore(nMonths) |-> PointAt(i)]

\* result === null
NullResult == [isNull |-> TRUE, latest |-> FALSE, hasHistorical |-> FALSE, historical |-> <<>>]

\* the bodies /predict may answer with: historical is optional
ResponseBodies ==
    {[hasHistorical |-> FALSE, historical |-> <<>>]} \cup
    {[hasHistorical |-> TRUE, historical |-> SeriesOf(m)] : m \in 0..MaxMonths}

(* --------------------------- HomePage's render -------------------------- *)

\* result?.historical || []
HistoricalOf(r) == IF r.isNull \/ ~r.hasHistorical THEN <<>> ELSE r.historical

historical == HistoricalOf(result)

MonthKey(d) == Slice(d.date, 0, MonthKeyLen)

\* the month keys of all the points, repeated ones kept
UniqueMonthsWithRepeats(h, i, acc) == [j \in 1..Len(h) |-> MonthKey(h[j])]

\* Array.from(new Set(h.map(MonthKey))): each key once, in order of first
\* insertion; acc holds the keys of the points before the i-th
RECURSIVE UniqueMonths(_, _, _)
UniqueMonths(h, i, acc) ==
    IF i > Len(h) THEN acc
    ELSE LET key == MonthKey(h[i])
         IN  IF \E j \in 1..Len(acc) : acc[j] = key
             THEN UniqueMonths(h, i + 1, acc)
             ELSE UniqueMonths(h, i + 1, Append(acc, key))

MonthsOf(h) == UniqueMonths(h, 1, <<>>)

months == MonthsOf(historical)

\* totalWindows counting one window too few
TotalWindowsOfOneShort(h) == Max(1, Len(MonthsOf(h)) - monthsToShow)

TotalWindowsOf(h) == Max(1, Len(MonthsOf(h)) - monthsToShow + 1)

totalWindows == TotalWindowsOf(historical)

DefaultWindowOf(h) == Max(0, Len(MonthsOf(h)) - monthsToShow)

defaultWindow == DefaultWindowOf(historical)

\* currentWindow without the clamp to the last window
currentWindowUnclamped == windowStart

currentWindow == Min(windowStart, totalWindows - 1)

\* visibleMonths sliced at windowStart rather than at the clamped index
visibleMonthsAtWindowStart == Slice(months, windowStart, windowStart + monthsToShow)

\* visibleMonths one month short
visibleMonthsOneShort == Slice(months, currentWindow, currentWindow + monthsToShow - 1)

visibleMonths == Slice(months, currentWindow, currentWindow + monthsToShow)

\* historical.filter(d => ms.includes(MonthKey(d))): the points whose month
\* key is in ms, in order
FilterByMonths(h, ms) ==
    LET keep == {i \in 1..Len(h) : \E j \in 1..Len(ms) : ms[j] = MonthKey(h[i])}
        \* the index of the k-th kept point
        nth[k \in 1..Cardinality(keep)] ==
            CHOOSE i \in keep : Cardinality({j \in keep : j <= i}) = k
    IN  [k \in 1..Cardinality(keep) |-> h[nth[k]]]

\* useState<{start, end} | null>(null)
NoZoom == [active |-> FALSE, start |-> 0, end |-> 0]

\* visibleData with the month window taking precedence over the zoom range
visibleDataWindowOnly == FilterByMonths(historical, visibleMonths)

\* visibleData without the month filter
visibleDataUnfiltered ==
    IF zoomRange.active /\ zoomRange.start >= 0 /\ zoomRange.end > zoomRange.start
    THEN Slice(historical, zoomRange.start, zoomRange.end)
    ELSE historical

visibleData ==
    IF zoomRange.active /\ zoomRange.start >= 0 /\ zoomRange.end > zoomRange.start
    THEN Slice(historical, zoomRange.start, zoomRange.end)
    ELSE FilterByMonths(historical, visibleMonths)

\* the chart's guard without its length test
chartShownAnyLength == ~result.isNull /\ result.hasHistorical

\* result && result.historical && result.historical.length > 0
chartShown == ~result.isNull /\ result.hasHistorical /\ Len(result.historical) > 0

(* ------------------------------ the y axis ------------------------------ *)

\* Prices are whole hundredths; the bounds of the axis are kept in hundredths
\* of a hundredth, so that 5% of a range of prices is a whole number. The
\* arithmetic is exact: the rounding of IEEE doubles is left out.

YMargin == 15
ZoomPadPercent == 5

Infinity == [finite |-> FALSE, negative |-> FALSE, value |-> 0]
NegInfinity == [finite |-> FALSE, negative |-> TRUE, value |-> 0]
Finite(v) == [finite |-> TRUE, negative |-> FALSE, value |-> v]

\* Math.min(...values) and Math.max(...values): Infinity and -Infinity of
\* no values
MathMin(values) ==
    IF values = {} THEN Infinity
    ELSE Finite(CHOOSE v \in values : \A w \in values : v <= w)

MathMax(values) ==
    IF values = {} THEN NegInfinity
    ELSE Finite(CHOOSE v \in values : \A w \in values : v >= w)

rawYMin ==
    LET data == visibleData
    IN  MathMin({Min(data[i].actual, data[i].predicted) : i \in 1..Len(data)})

rawYMax ==
    LET data == visibleData
    IN  MathMax({Max(data[i].actual, data[i].predicted) : i \in 1..Len(data)})

\* Math.floor and Math.ceil of a price in hundredths, in whole units
Floor(c) == c \div 100
Ceil(c) == -((-c) \div 100)

\* a whole number of units, and a price in hundredths, as bounds of the axis
Units(n) == Finite(100 * 100 * n)
Hundredths(c) == Finite(100 * c)

\* yMin and yMax padded by 5% of the range whether zoomed or not
yBoundsPadAlways ==
    LET lo == rawYMin
        hi == rawYMax
    IN
        IF lo.finite /\ hi.finite
        THEN LET yRange == hi.value - lo.value
             IN  [yMin |-> Finite(Hundredths(lo.value).value - ZoomPadPercent * yRange),
                  yMax |-> Finite(Hundredths(hi.value).value + ZoomPadPercent * yRange)]
        ELSE [yMin |-> lo, yMax |-> hi]

\* yMin and yMax with the fixed margin whether zoomed or not
yBoundsMarginAlways ==
    LET lo == rawYMin
        hi == rawYMax
    IN
        IF lo.finite /\ hi.finite
        THEN [yMin |-> Units(Floor(lo.value - 100 * YMargin)),
              yMax |-> Units(Ceil(hi.value + 100 * YMargin))]
        ELSE [yMin |-> lo, yMax |-> hi]

\* yMin and yMax after the adjustment of lines 103-113
yBounds ==
    LET lo == rawYMin
        hi == rawYMax
    IN
        IF lo.finite /\ hi.finite
        THEN IF zoomRange.active
             THEN LET yRange == hi.value - lo.value
                  IN  [yMin |-> Finite(Hundredths(lo.value).value - ZoomPadPercent * yRange),
                       yMax |-> Finite(Hundredths(hi.value).value + ZoomPadPercent * yRange)]
             ELSE [yMin |-> Units(Floor(lo.value - 100 * YMargin)),
                   yMax |-> Units(Ceil(hi.value + 100 * YMargin))]
        ELSE [yMin |-> lo, yMax |-> hi]

\* the domain prop of the YAxis, domain={[yMin, yMax]}: always the pair of
\* yMin and yMax, and given to a YAxis only where the chart is rendered
axisDomain ==
    LET bounds == yBounds
    IN  [given |-> chartShown, yMin |-> bounds.yMin, yMax |-> bounds.yMax]

(* ------------------------------ App's state ----------------------------- *)

Pages == {"home", "about", "news", "howitworks"}

EmptyQueryError == "Please enter a stock name or symbol."

\* the message of the catch branch, without its leading cross mark
FetchError == "Could not fetch prediction."

\* what the user may have typed in the input
Queries == {<<>>, <<" ">>, <<"A">>}

\* an activeLabel that is the formatted date of no served point
StrayLabel == formatDate(DateStr(1999, 12, 31))

\* the activeLabel a chart click may carry: the x value of a drawn point, a
\* label of no point, or none at all (undefined and '' are both falsy)
ClickLabels ==
    LET data == visibleData
    IN  {formatDate(data[i].date) : i \in 1..Len(data)} \cup {StrayLabel, <<>>}

\* the requests in flight: whether the one issued last is among them, and how
\* many issued before it are
NoRequests == [latest |-> FALSE, older |-> 0]

\* the event just handled: its handler, the activeLabel it carried, and
\* what the handler found: whether a zoom range was set, windowStart and the
\* displayed window index; for an arrow, also the range and the visible
\* data; for a search with a blank query, the range and App's state
NoApp == [result |-> NullResult, loading |-> FALSE, pending |-> NoRequests]

Event(name, label) ==
    LET arrow == name \in {"previous", "next"}
        blank == name \in {"search", "enter"} /\ Trim(query) = <<>>
    IN  [event |-> name, label |-> label, zoomed |-> zoomRange.active,
         window |-> windowStart, current |-> currentWindow,
         range |-> IF arrow \/ blank THEN zoomRange ELSE NoZoom,
         data |-> IF arrow THEN visibleData ELSE <<>>,
         app |-> IF blank
                 THEN [result |-> result, loading |-> loading, pending |-> pending]
                 ELSE NoApp]

\* a passive effect waiting to run is run by React before the next render, so
\* a handler that changes state while one is scheduled is followed by it
AfterUpdate(changed) ==
    IF effectPending = "scheduled" /\ changed THEN "forced" ELSE effectPending

\* labelled clicks are counted (modulo 2) from the last moment the series
\* changed with no zoom range set; -1 when it changed with a range set
Recount(z) == IF z.active THEN -1 ELSE 0

InFlight == pending.older + (IF pending.latest THEN 1 ELSE 0)

Init ==
    /\ query = <<>>
    /\ result = NullResult
    /\ error = ""
    /\ loading = FALSE
    /\ currentPage = "home"
    /\ pending = NoRequests
    /\ windowStart = 0
    /\ zoomRange = NoZoom
    /\ effectPending = "none"
    /\ hitClicks = 0
    /\ hist = [event |-> "init", label |-> <<>>, zoomed |-> FALSE,
               window |-> 0, current |-> 0, range |-> NoZoom, data |-> <<>>,
               app |-> NoApp]

(* --------------------------- HomePage's handlers ------------------------ *)

\* the effect keeping the window start it finds instead of resetting it
EffectTargetKept == windowStart

\* useEffect(() => { setWindowStart(defaultWindow); }, [result])
EffectTarget == defaultWindow

RunEffect ==
    /\ effectPending # "none"
    /\ windowStart' = EffectTarget
    /\ effectPending' = "none"
    /\ hist' = Event("effect", <<>>)
    /\ UNCHANGED <<query, result, error, loading, currentPage, pending,
                   zoomRange, hitClicks>>

\* the left arrow stepping from windowStart rather than from the clamped index
PreviousTargetFromStart == Max(0, windowStart - 1)

PreviousTarget == Max(0, currentWindow - 1)

\* disabled={currentWindow === 0} and disabled={currentWindow >= totalWindows - 1}
PreviousDisabled == currentWindow = 0

NextDisabled == currentWindow >= totalWindows - 1

\* the right arrow stepping two windows
NextTargetByTwo == Min(totalWindows - 1, currentWindow + 2)

NextTarget == Min(totalWindows - 1, currentWindow + 1)

\* the left arrow: disabled={currentWindow === 0}
PreviousWindow ==
    /\ currentPage = "home" /\ chartShown
    /\ effectPending \in {"none", "scheduled"}
    /\ ~PreviousDisabled
    /\ windowStart' = PreviousTarget
    /\ effectPending' = AfterUpdate(windowStart' # windowStart)
    /\ hist' = Event("previous", <<>>)
    /\ UNCHANGED <<query, result, error, loading, currentPage, pending,
                   zoomRange, hitClicks>>

\* the right arrow also clearing the zoom range
NextWindowClearingZoom ==
    /\ currentPage = "home" /\ chartShown
    /\ effectPending \in {"none", "scheduled"}
    /\ ~NextDisabled
    /\ windowStart' = NextTarget
    /\ zoomRange' = NoZoom
    /\ effectPending' = AfterUpdate(windowStart' # windowStart)
    /\ hist' = Event("next", <<>>)
    /\ UNCHANGED <<query, result, error, loading, currentPage, pending, hitClicks>>

\* the right arrow: disabled={currentWindow >= totalWindows - 1}
NextWindow ==
    /\ currentPage = "home" /\ chartShown
    /\ effectPending \in {"none", "scheduled"}
    /\ ~NextDisabled
    /\ windowStart' = NextTarget
    /\ effectPending' = AfterUpdate(windowStart' # windowStart)
    /\ hist' = Event("next", <<>>)
    /\ UNCHANGED <<query, result, error, loading, currentPage, pending,
                   zoomRange, hitClicks>>

\* historical.findIndex(d => formatDate(d.date) === label): 0-based, -1 if none
FindIndex(h, label) ==
    IF \E i \in 1..Len(h) : formatDate(h[i].date) = label
    THEN (CHOOSE i \in 1..Len(h) :
            /\ formatDate(h[i].date) = label
            /\ \A j \in 1..(i - 1) : formatDate(h[j].date) # label) - 1
    ELSE -1

\* ZoomRangeFor without the re-anchoring of start at the end of the series
ZoomRangeForNoReanchor(idx, len) ==
    LET start == Max(0, idx - ZoomBack)
        end == Min(len, start + ZoomWidth)
    IN  [active |-> TRUE, start |-> start, end |-> end]

\* ZoomRangeFor starting at the clicked point
ZoomRangeForFromClicked(idx, len) ==
    LET start == Max(0, idx)
        end == Min(len, start + ZoomWidth)
    IN  [active |-> TRUE,
         start |-> IF end - start < ZoomWidth THEN Max(0, end - ZoomWidth) ELSE start,
         end |-> end]

\* ZoomRangeFor ending before the clicked point
ZoomRangeForUpToClicked(idx, len) ==
    LET start == Max(0, idx - ZoomWidth)
        end == Min(len, Max(idx, 1))
    IN  [active |-> TRUE, start |-> start, end |-> end]

\* the range set on zooming in at index idx of a series of length len
ZoomRangeFor(idx, len) ==
    LET start == Max(0, idx - ZoomBack)
        end == Min(len, start + ZoomWidth)
    IN  [active |-> TRUE,
         start |-> IF end - start < ZoomWidth THEN Max(0, end - ZoomWidth) ELSE start,
         end |-> end]

\* onClick zooming in again, around the clicked point, when a range is set
ZoomAfterClickRezoom(label) ==
    IF label = <<>> THEN zoomRange
    ELSE LET idx == FindIndex(historical, label)
         IN  IF idx = -1 THEN (IF zoomRange.active THEN NoZoom ELSE zoomRange)
             ELSE ZoomRangeFor(idx, Len(historical))

\* onClick without the idx === -1 return
ZoomAfterClickNoMissCheck(label) ==
    IF label = <<>> THEN zoomRange
    ELSE IF ~zoomRange.active
         THEN ZoomRangeFor(FindIndex(historical, label), Len(historical))
         ELSE NoZoom

\* the zoomRange LineChart's onClick leaves behind
ZoomAfterClick(label) ==
    IF label = <<>> THEN zoomRange
    ELSE IF ~zoomRange.active
         THEN LET idx == FindIndex(historical, label)
              IN  IF idx = -1 THEN zoomRange ELSE ZoomRangeFor(idx, Len(historical))
         ELSE NoZoom

\* a hit is a click whose label is the formatted date of a point of the series
IsHit(label) == label # <<>> /\ FindIndex(historical, label) # -1

\* hits are counted modulo 2; a labelled click on no point that clears the
\* range ends the count
CountClick(label) ==
    IF hitClicks = -1 \/ label = <<>> THEN hitClicks
    ELSE IF IsHit(label) THEN 1 - hitClicks
    ELSE IF zoomRange.active THEN -1 ELSE hitClicks

\* onClick also selecting the default window
OnChartClickResettingWindow(label) ==
    /\ currentPage = "home" /\ chartShown
    /\ effectPending \in {"none", "scheduled"}
    /\ zoomRange' = ZoomAfterClick(label)
    /\ windowStart' = defaultWindow
    /\ effectPending' = AfterUpdate(zoomRange' # zoomRange)
    /\ hitClicks' = CountClick(label)
    /\ hist' = Event("click", label)
    /\ UNCHANGED <<query, result, error, loading, currentPage, pending>>

OnChartClick(label) ==
    /\ currentPage = "home" /\ chartShown
    /\ effectPending \in {"none", "scheduled"}
    /\ zoomRange' = ZoomAfterClick(label)
    /\ effectPending' = AfterUpdate(zoomRange' # zoomRange)
    /\ hitClicks' = CountClick(label)
    /\ hist' = Event("click", label)
    /\ UNCHANGED <<query, result, error, loading, currentPage, pending,
                   windowStart>>

SetQuery(q) ==
    /\ currentPage = "home"
    /\ effectPending = "none"
    /\ q # query
    /\ query' = q
    /\ hist' = Event("type", <<>>)
    /\ UNCHANGED <<result, error, loading, currentPage, pending,
                   windowStart, zoomRange, effectPending, hitClicks>>

(* ------------------------------ App's handlers -------------------------- *)

\* handleSearch clearing the result before it looks at the query
HandleSearchClearingFirst(name) ==
    /\ currentPage = "home"
    /\ effectPending = "none"
    /\ hist' = Event(name, <<>>)
    /\ IF Trim(query) = <<>>
       THEN /\ error' = EmptyQueryError
            /\ result' = NullResult
            /\ windowStart' = IF result.isNull THEN windowStart
                              ELSE DefaultWindowOf(HistoricalOf(NullResult))
            /\ UNCHANGED <<query, loading, currentPage, pending,
                           zoomRange, effectPending, hitClicks>>
       ELSE /\ InFlight < MaxInFlight
            /\ error' = ""
            /\ result' = NullResult
            /\ loading' = TRUE
            /\ pending' = [latest |-> TRUE, older |-> InFlight]
            /\ windowStart' = IF result.isNull THEN windowStart
                              ELSE DefaultWindowOf(HistoricalOf(NullResult))
            /\ hitClicks' = IF result.isNull THEN hitClicks ELSE Recount(zoomRange)
            /\ UNCHANGED <<query, currentPage, zoomRange, effectPending>>

\* handleSearch up to its await; setResult(null) changes result's identity
\* unless it was null, and the effect that follows runs within the event
HandleSearch(name) ==
    /\ currentPage = "home"
    /\ effectPending = "none"
    /\ hist' = Event(name, <<>>)
    /\ IF Trim(query) = <<>>
       THEN /\ error' = EmptyQueryError
            /\ UNCHANGED <<query, result, loading, currentPage, pending,
                           windowStart, zoomRange, effectPending, hitClicks>>
       ELSE /\ InFlight < MaxInFlight
            /\ error' = ""
            /\ result' = NullResult
            /\ loading' = TRUE
            /\ pending' = [latest |-> TRUE, older |-> InFlight]
            /\ windowStart' = IF result.isNull THEN windowStart
                              ELSE DefaultWindowOf(HistoricalOf(NullResult))
            /\ hitClicks' = IF result.isNull THEN hitClicks ELSE Recount(zoomRange)
            /\ UNCHANGED <<query, currentPage, zoomRange, effectPending>>

\* the Get Prediction button: disabled={loading}
ClickGetPrediction == ~loading /\ HandleSearch("search")

\* onKeyDown on the input: Enter
PressEnter == HandleSearch("enter")

\* the requests in flight once one of them has settled
Settled(isLatest) ==
    IF isLatest THEN [pending EXCEPT !.latest = FALSE]
    ELSE [pending EXCEPT !.older = pending.older - 1]

CanSettle(isLatest) == IF isLatest THEN pending.latest ELSE pending.older > 0

\* a request resolves: setResult(response.data), then finally
ResponseOk(isLatest, body) ==
    /\ CanSettle(isLatest)
    /\ effectPending = "none"
    /\ result' = [isNull |-> FALSE, latest |-> isLatest,
                  hasHistorical |-> body.hasHistorical, historical |-> body.historical]
    /\ loading' = FALSE
    /\ pending' = Settled(isLatest)
    /\ effectPending' = IF currentPage = "home" THEN "scheduled" ELSE "none"
    /\ hitClicks' = Recount(zoomRange)
    /\ hist' = Event("response", <<>>)
    /\ UNCHANGED <<query, error, currentPage, windowStart, zoomRange>>

\* a request rejects: catch, then finally
ResponseFail(isLatest) ==
    /\ CanSettle(isLatest)
    /\ effectPending = "none"
    /\ error' = FetchError
    /\ loading' = FALSE
    /\ pending' = Settled(isLatest)
    /\ hist' = Event("failure", <<>>)
    /\ UNCHANGED <<query, result, currentPage, windowStart, zoomRange,
                   effectPending, hitClicks>>

\* a Navigation button: HomePage is unmounted on leaving home, and mounted
\* (useState(0), useState(null), then its effect) on coming back
GoToPage(p) ==
    /\ effectPending = "none"
    /\ p # currentPage
    /\ currentPage' = p
    /\ zoomRange' = IF p = "home" \/ currentPage = "home" THEN NoZoom ELSE zoomRange
    /\ windowStart' = IF p = "home" THEN defaultWindow
                      ELSE IF currentPage = "home" THEN 0 ELSE windowStart
    /\ hitClicks' = IF p = "home" \/ currentPage = "home" THEN 0 ELSE hitClicks
    /\ hist' = Event("page", <<>>)
    /\ UNCHANGED <<query, result, error, loading, pending, effectPending>>

Next ==
    \/ RunEffect
    \/ PreviousWindow
    \/ NextWindow
    \/ \E label \in ClickLabels : OnChartClick(label)
    \/ \E q \in Queries : SetQuery(q)
    \/ ClickGetPrediction
    \/ PressEnter
    \/ \E isLatest \in BOOLEAN, body \in ResponseBodies : ResponseOk(isLatest, body)
    \/ \E isLatest \in BOOLEAN : ResponseFail(isLatest)
    \/ \E p \in Pages : GoToPage(p)

Spec == Init /\ [][Next]_vars

(* --------------------------- the derived views --------------------------- *)

\* most months of a series the views are computed on
MaxViewMonths == 10

\* a series the service does not keep sorted: February, January, February,
\* March, January
UnsortedSeries ==
    <<[date |-> DateStr(2024, 2, 1), actual |-> 10420, predicted |-> 10388],
      [date |-> DateStr(2024, 1, 1), actual |-> 9975, predicted |-> 10012],
      [date |-> DateStr(2024, 2, 2), actual |-> 10655, predicted |-> 10540],
      [date |-> DateStr(2024, 3, 1), actual |-> 10101, predicted |-> 10199],
      [date |-> DateStr(2024, 1, 2), actual |-> 9850, predicted |-> 9925]>>

\* a series with dates that are not "YYYY-MM-DD": "2024/03/07", "2024-03",
\* "2024-03-07-01", "" and "--", after one that is
MalformedSeries ==
    <<[date |-> DateStr(2024, 3, 7), actual |-> 10000, predicted |-> 10100],
      [date |-> <<"2", "0", "2", "4", "/", "0", "3", "/", "0", "7">>,
       actual |-> 10250, predicted |-> 10175],
      [date |-> <<"2", "0", "2", "4", "-", "0", "3">>,
       actual |-> 10310, predicted |-> 10290],
      [date |-> <<"2", "0", "2", "4", "-", "0", "3", "-", "0", "7", "-", "0", "1">>,
       actual |-> 10405, predicted |-> 10333],
      [date |-> <<>>, actual |-> 10500, predicted |-> 10480],
      [date |-> <<"-", "-">>, actual |-> 10575, predicted |-> 10610]>>

\* the bodies the views are computed on
ViewBodies ==
    {[hasHistorical |-> FALSE, historical |-> <<>>]} \cup
    {[hasHistorical |-> TRUE, historical |-> SeriesOf(m)] : m \in 0..MaxViewMonths} \cup
    {[hasHistorical |-> TRUE, historical |-> h] : h \in {UnsortedSeries, MalformedSeries}}

\* HomePage showing the answer to one search, once its effect has run
InitView ==
    /\ query = <<"A">>
    /\ \E body \in ViewBodies :
          /\ result = [isNull |-> FALSE, latest |-> TRUE,
                       hasHistorical |-> body.hasHistorical,
                       historical |-> body.historical]
          /\ windowStart = DefaultWindowOf(body.historical)
    /\ error = ""
    /\ loading = FALSE
    /\ currentPage = "home"
    /\ pending = NoRequests
    /\ zoomRange = NoZoom
    /\ effectPending = "none"
    /\ hitClicks = 0
    /\ hist = [event |-> "effect", label |-> <<>>, zoomed |-> FALSE,
               window |-> 0, current |-> 0, range |-> NoZoom, data |-> <<>>,
               app |-> NoApp]

\* the events that change what HomePage derives from one series
NextView ==
    \/ PreviousWindow
    \/ NextWindow
    \/ \E label \in ClickLabels : OnChartClick(label)

SpecView == InitView /\ [][NextView]_vars

(* ------------------------------ properties ------------------------------ *)

\* the first 7 characters of a date, and the number of distinct ones among
\* the dates of the series
MonthPrefix(s) == SubSeq(s, 1, Min(7, Len(s)))

UniqueMonthCount ==
    Cardinality({MonthPrefix(historical[i].date) : i \in 1..Len(historical)})

\* C1: once a response has put a new series in result, no zoom range is set
C1_NewSeriesClearsZoom == hist.event = "response" => ~zoomRange.active

\* C2: when the reset that follows a new series has run, the window index is
\* max(0, uniqueMonthCount - 4) of that series, whatever it was before
C2_ResetSelectsDefaultWindow ==
    hist.event = "effect" =>
        /\ windowStart = Max(0, UniqueMonthCount - 4)
        /\ currentWindow = Max(0, UniqueMonthCount - 4)

C2_Witness ==
    /\ hist.event = "effect"
    /\ UniqueMonthCount = 6
    /\ currentWindow = 2

\* C3: in every state the displayed window index is at least 0 and below
\* totalWindows = max(1, uniqueMonthCount - 3)
C3_WindowIndexInRange ==
    /\ 0 <= currentWindow
    /\ currentWindow < Max(1, UniqueMonthCount - 3)

C3_Witness ==
    /\ hist.event = "next"
    /\ UniqueMonthCount = 6
    /\ currentWindow = 2

\* C4: whenever a series is held and a zoom range is set, the range is a
\* half-open index range into that series, at most 7 wide
C4_ZoomRangeWithinSeries ==
    (~result.isNull /\ zoomRange.active) =>
        /\ 0 <= zoomRange.start
        /\ zoomRange.start < zoomRange.end
        /\ zoomRange.end <= Len(historical)
        /\ zoomRange.end - zoomRange.start <= 7

\* C5: a chart click raised while a zoom range is set leaves none set,
\* whether or not the click carries a point label
C5_AnyClickClearsZoom == (hist.event = "click" /\ hist.zoomed) => ~zoomRange.active

\* C6: counted from a series with no range set, a range is set exactly when
\* the number of hits is odd, and a hit on a set range leaves the null range
C6_ZoomTogglesOnHits ==
    /\ hitClicks # -1 => (zoomRange.active <=> hitClicks = 1)
    /\ (hist.event = "click" /\ hist.zoomed /\ IsHit(hist.label)) => zoomRange = NoZoom
    /\ (hist.event = "click" /\ ~hist.zoomed /\ IsHit(hist.label)) => zoomRange.active

C6_Witness ==
    /\ hist.event = "click"
    /\ hist.zoomed
    /\ IsHit(hist.label)
    /\ hitClicks = 0

\* C7: the range set by a hit while no range was set is exactly 7 wide if the
\* series has at least 7 points, and is [0, length) otherwise
C7_ZoomWidth ==
    (hist.event = "click" /\ ~hist.zoomed /\ IsHit(hist.label)) =>
        /\ zoomRange.active
        /\ IF Len(historical) >= 7
           THEN /\ zoomRange.end - zoomRange.start = 7
                /\ 0 <= zoomRange.start
                /\ zoomRange.end <= Len(historical)
           ELSE zoomRange.start = 0 /\ zoomRange.end = Len(historical)

C7_Witness ==
    /\ hist.event = "click"
    /\ ~hist.zoomed
    /\ Len(historical) > 7
    /\ FindIndex(historical, hist.label) = Len(historical) - 1
    /\ zoomRange.active

\* C8: a click with no range set whose label is the formatted date of no
\* point leaves no range set and the window index as it was
C8_MissIsNoOp ==
    (hist.event = "click" /\ ~hist.zoomed /\ FindIndex(historical, hist.label) = -1) =>
        /\ zoomRange = NoZoom
        /\ windowStart = hist.window
        /\ currentWindow = hist.current

C8_Witness ==
    /\ hist.event = "click"
    /\ hist.label = StrayLabel
    /\ ~hist.zoomed
    /\ ~zoomRange.active

\* C9: no chart click, zooming in or out, changes the window index
C9_ClicksKeepWindow ==
    hist.event = "click" =>
        /\ windowStart = hist.window
        /\ currentWindow = hist.current

C9_Witness ==
    /\ hist.event = "click"
    /\ hist.zoomed
    /\ IsHit(hist.label)
    /\ ~zoomRange.active
    /\ totalWindows = 3
    /\ currentWindow = 0

\* C10: whenever a zoom range is set, the visible data are the points of the
\* series from index start up to, not including, index end, whatever the
\* month window is
C10_ZoomTakesPrecedence ==
    zoomRange.active =>
        LET last == Min(zoomRange.end, Len(historical))
            first == Min(zoomRange.start, Len(historical))
        IN  visibleData = [i \in 1..(last - first) |-> historical[first + i]]

C10_Witness ==
    /\ zoomRange.active
    /\ chartShown
    /\ Len(visibleData) = 7
    /\ visibleData # FilterByMonths(historical, visibleMonths)

\* C11: with no zoom range set, the visible data are the points of the series
\* whose month key is one of visibleMonths, in the order of the series
C11_WindowFiltersByMonth ==
    ~zoomRange.active =>
        LET shown == visibleMonths
            InVisibleMonth(d) == \E j \in 1..Len(shown) : shown[j] = MonthPrefix(d.date)
        IN  visibleData = SelectSeq(historical, InVisibleMonth)

C11_Witness ==
    /\ ~zoomRange.active
    /\ hist.event = "previous"
    /\ Len(visibleData) > 0
    /\ Len(visibleData) < Len(historical)
    /\ visibleData[1] # historical[1]

\* C12: for every series totalWindows is max(1, uniqueMonthCount - 4 + 1)
C12_TotalWindows == totalWindows = Max(1, UniqueMonthCount - 4 + 1)

C12_Witness ==
    /\ hist.event = "previous"
    /\ UniqueMonthCount = 10
    /\ totalWindows = 7
    /\ defaultWindow = 6

\* C13: with at most 4 unique months there is one window: both arrows are
\* disabled and their handlers would keep the index, no previous or next
\* event has been handled on the series, and visibleMonths holds every month
C13_OneWindowUpToFourMonths ==
    UniqueMonthCount <= 4 =>
        /\ totalWindows = 1
        /\ currentWindow = 0
        /\ currentWindow >= totalWindows - 1
        /\ PreviousTarget = currentWindow
        /\ NextTarget = currentWindow
        /\ hist.event \notin {"previous", "next"}
        /\ LET shown == visibleMonths
           IN  /\ Len(shown) = UniqueMonthCount
               /\ {shown[j] : j \in 1..Len(shown)} =
                      {MonthPrefix(historical[i].date) : i \in 1..Len(historical)}

C13_Witness ==
    /\ chartShown
    /\ UniqueMonthCount = 3
    /\ windowStart = 2

\* C14: visibleMonths is the run of months from index currentWindow on, 4
\* long or as long as the months last, and it has min(4, uniqueMonthCount)
\* entries in every state
C14_VisibleMonthsSlice ==
    LET shown == visibleMonths
        all == months
        index == currentWindow
    IN  /\ Len(shown) = Min(4, UniqueMonthCount)
        /\ index + Len(shown) <= Len(all)
        /\ \A j \in 1..Len(shown) : shown[j] = all[index + j]

C14_Witness ==
    /\ hist.event = "previous"
    /\ UniqueMonthCount = 6
    /\ currentWindow = 1
    /\ visibleMonths = <<months[2], months[3], months[4], months[5]>>

\* the prices, actual and predicted, of the visible points
VisiblePrices ==
    LET data == visibleData
    IN  UNION {{data[i].actual, data[i].predicted} : i \in 1..Len(data)}


\* C15: where the visible data is empty or a raw bound is not finite, no
\* pair of bounds is given to the axis; a pair that is given is finite and
\* not inverted
C15_NoInvalidDomain ==
    /\ (Len(visibleData) = 0 \/ ~rawYMin.finite \/ ~rawYMax.finite) => ~axisDomain.given
    /\ axisDomain.given =>
          /\ axisDomain.yMin.finite /\ axisDomain.yMax.finite
          /\ axisDomain.yMin.value <= axisDomain.yMax.value

\* C16: not zoomed, with visible points, the axis runs from
\* floor(rawMin - 15) to ceil(rawMax + 15): whole units, the nearest below
\* rawMin - 15 and the nearest above rawMax + 15, rawMin and rawMax being the
\* least and the greatest price, actual or predicted, of the visible points
C16_UnzoomedDomain ==
    (~zoomRange.active /\ Len(visibleData) > 0) =>
        LET prices == VisiblePrices
            domain == axisDomain
        IN  /\ domain.yMin.finite /\ domain.yMax.finite
            /\ domain.yMin.value % (100 * 100) = 0
            /\ domain.yMax.value % (100 * 100) = 0
            /\ \E lo \in prices :
                /\ \A p \in prices : lo <= p
                /\ domain.yMin.value <= 100 * (lo - 100 * 15)
                /\ domain.yMin.value + 100 * 100 > 100 * (lo - 100 * 15)
            /\ \E hi \in prices :
                /\ \A p \in prices : p <= hi
                /\ domain.yMax.value >= 100 * (hi + 100 * 15)
                /\ domain.yMax.value - 100 * 100 < 100 * (hi + 100 * 15)

\* the chart is drawn unzoomed after a step of the window, and the floor and
\* the ceiling both moved a bound: neither raw bound is a whole unit
C16_Witness ==
    /\ hist.event = "next"
    /\ axisDomain.given /\ ~zoomRange.active
    /\ Len(visibleData) > 1
    /\ rawYMin.value % 100 # 0 /\ rawYMax.value % 100 # 0
    /\ axisDomain.yMin.value < 100 * (rawYMin.value - 100 * 15)
    /\ axisDomain.yMax.value > 100 * (rawYMax.value + 100 * 15)

\* C17: zoomed, with visible points, the axis runs from rawMin - 5% of the
\* range to rawMax + 5% of the range, the range being rawMax - rawMin over
\* the zoomed slice; no fixed margin is added
C17_ZoomedDomain ==
    (zoomRange.active /\ Len(visibleData) > 0) =>
        LET prices == VisiblePrices
            domain == axisDomain
        IN  \E lo, hi \in prices :
                /\ \A p \in prices : lo <= p /\ p <= hi
                /\ domain.yMin.finite /\ domain.yMax.finite
                /\ 100 * (100 * lo - domain.yMin.value) = 5 * 100 * (hi - lo)
                /\ 100 * (domain.yMax.value - 100 * hi) = 5 * 100 * (hi - lo)

C17_Witness ==
    /\ hist.event = "click"
    /\ axisDomain.given /\ zoomRange.active
    /\ Len(visibleData) = 7
    /\ rawYMax.value > rawYMin.value
    /\ axisDomain.yMin.value < 100 * rawYMin.value
    /\ axisDomain.yMin.value > 100 * (rawYMin.value - 100 * 15)

IsDigit(c) == \E k \in 1..Len(Digits) : Digits[k] = c

\* a string of the form "YYYY-MM-DD"
IsIsoDate(s) ==
    /\ Len(s) = 10
    /\ s[5] = "-" /\ s[8] = "-"
    /\ \A k \in {1, 2, 3, 4, 6, 7, 9, 10} : IsDigit(s[k])

\* the number of components a string splits into on '-'
DashComponents(s) == Cardinality({k \in 1..Len(s) : s[k] = "-"}) + 1

\* C18: formatDate turns each date "YYYY-MM-DD" into "MM/DD/YYYY" and gives
\* back unchanged each date that does not split on '-' into three components
C18_FormatDate ==
    \A i \in 1..Len(historical) :
        LET s == historical[i].date
        IN  /\ IsIsoDate(s) =>
                formatDate(s) =
                    SubSeq(s, 6, 7) \o <<"/">> \o SubSeq(s, 9, 10) \o <<"/">> \o SubSeq(s, 1, 4)
            /\ DashComponents(s) # 3 => formatDate(s) = s

\* a click was handled on the series whose dates are "2024-03-07",
\* "2024/03/07", "2024-03", "2024-03-07-01", "" and "--"
C18_Witness ==
    /\ hist.event = "click"
    /\ historical = MalformedSeries
    /\ formatDate(historical[1].date) = <<"0", "3", "/", "0", "7", "/", "2", "0", "2", "4">>
    /\ formatDate(historical[2].date) = <<"2", "0", "2", "4", "/", "0", "3", "/", "0", "7">>
    /\ formatDate(historical[4].date) = historical[4].date

\* the order of the characters of dates, and of strings made of them
CharOrder == <<"-", "/">> \o Digits

CharRank(c) == CHOOSE r \in 1..Len(CharOrder) : CharOrder[r] = c

StrLess(a, b) ==
    \E k \in 1..(Min(Len(a), Len(b)) + 1) :
        /\ \A j \in 1..(k - 1) : a[j] = b[j]
        /\ IF k > Len(a) THEN k <= Len(b)
           ELSE k <= Len(b) /\ CharRank(a[k]) < CharRank(b[k])

SortedByDate(h) ==
    /\ \A i \in 1..Len(h) : IsIsoDate(h[i].date)
    /\ \A i \in 1..(Len(h) - 1) : ~StrLess(h[i + 1].date, h[i].date)

\* the index of the first point of the month key
FirstPointOf(h, key) ==
    CHOOSE i \in 1..Len(h) :
        /\ MonthPrefix(h[i].date) = key
        /\ \A j \in 1..(i - 1) : MonthPrefix(h[j].date) # key

\* C19: months holds each month key of the series once, in the order in
\* which the keys first occur; for a series in ascending order of date the
\* keys ascend too
C19_UniqueMonths ==
    LET h == historical
        ms == months
    IN  /\ \A j, k \in 1..Len(ms) : j # k => ms[j] # ms[k]
        /\ {ms[j] : j \in 1..Len(ms)} = {MonthPrefix(h[i].date) : i \in 1..Len(h)}
        /\ \A j, k \in 1..Len(ms) : j < k => FirstPointOf(h, ms[j]) < FirstPointOf(h, ms[k])
        /\ SortedByDate(h) => \A j \in 1..(Len(ms) - 1) : StrLess(ms[j], ms[j + 1])

\* a click was handled on the series of February, January, February, March
\* and January
C19_Witness ==
    /\ hist.event = "click"
    /\ historical = UnsortedSeries
    /\ ~SortedByDate(historical)
    /\ months = <<MonthPrefix(DateStr(2024, 2, 1)), MonthPrefix(DateStr(2024, 1, 1)),
                  MonthPrefix(DateStr(2024, 3, 1))>>

\* C20: with no result, no historical array or an empty one, visibleMonths
\* and visibleData are empty, no domain is given to an axis, there is one
\* window, of index 0, and the chart is not rendered
C20_EmptySeries ==
    Len(historical) = 0 =>
        /\ visibleMonths = <<>>
        /\ visibleData = <<>>
        /\ ~axisDomain.given
        /\ totalWindows = 1
        /\ currentWindow = 0
        /\ ~chartShown

\* a response without points has arrived while a window index and a zoom
\* range of the series before it are still held
C20_Witness ==
    /\ ~result.isNull
    /\ result.hasHistorical
    /\ Len(historical) = 0
    /\ windowStart > 0
    /\ zoomRange.active

\* C21: an arrow or a chart click handled while the reset that follows a new
\* series has yet to run, hence the first event after the series arrived,
\* found the default window of that series displayed and no zoom range set
C21_NewSeriesProcessedFirst ==
    (hist.event \in {"previous", "next", "click"} /\ effectPending # "none") =>
        /\ hist.current = defaultWindow
        /\ ~hist.zoomed

\* C22: a hit at index idx with no range set sets the range from
\* start = max(0, idx - 3) to end = min(length, start + 7), start moved to
\* max(0, end - 7) if that is less than 7 wide; for 3 <= idx <= length - 4
\* the range is [idx - 3, idx + 4)
C22_ZoomRangeOfHit ==
    (hist.event = "click" /\ ~hist.zoomed /\ IsHit(hist.label)) =>
        LET idx == FindIndex(historical, hist.label)
            len == Len(historical)
            first == IF idx - 3 > 0 THEN idx - 3 ELSE 0
            end == IF first + 7 < len THEN first + 7 ELSE len
            start == IF end - first < 7 THEN (IF end - 7 > 0 THEN end - 7 ELSE 0) ELSE first
        IN  /\ zoomRange.active
            /\ zoomRange.start = start
            /\ zoomRange.end = end
            /\ (3 <= idx /\ idx <= len - 4) =>
                  zoomRange.start = idx - 3 /\ zoomRange.end = idx + 4

\* a hit on the fifth of nine points set the range [1, 8)
C22_Witness ==
    /\ hist.event = "click"
    /\ ~hist.zoomed
    /\ IsHit(hist.label)
    /\ Len(historical) = 9
    /\ FindIndex(historical, hist.label) = 4
    /\ zoomRange = [active |-> TRUE, start |-> 1, end |-> 8]

\* C25: the range set by a hit with no range set holds the index of the
\* clicked point, the first and the last index of the series included
C25_ZoomRangeHoldsClicked ==
    (hist.event = "click" /\ ~hist.zoomed /\ IsHit(hist.label)) =>
        LET idx == FindIndex(historical, hist.label)
        IN  /\ 0 <= idx /\ idx < Len(historical)
            /\ zoomRange.active
            /\ zoomRange.start <= idx
            /\ idx < zoomRange.end

\* a hit on the last of nine points set a range that ends with it
C25_Witness ==
    /\ hist.event = "click"
    /\ ~hist.zoomed
    /\ IsHit(hist.label)
    /\ Len(historical) = 9
    /\ FindIndex(historical, hist.label) = Len(historical) - 1
    /\ zoomRange.start = 2
    /\ zoomRange.end = 9

\* C23: the left arrow sets the window index to max(0, index - 1) and the
\* right arrow to min(totalWindows - 1, index + 1), one window away; at
\* index 0 the left arrow, and at index totalWindows - 1 the right arrow,
\* is disabled and its handler would set the index it finds
C23_AdvanceByOne ==
    /\ hist.event = "previous" =>
          /\ hist.current > 0
          /\ windowStart = hist.current - 1
          /\ currentWindow = hist.current - 1
    /\ hist.event = "next" =>
          /\ hist.current < totalWindows - 1
          /\ windowStart = hist.current + 1
          /\ currentWindow = hist.current + 1
    /\ currentWindow = 0 => PreviousTarget = currentWindow
    /\ currentWindow = totalWindows - 1 => NextTarget = currentWindow

\* the right arrow was clicked on the first of three windows
C23_Witness ==
    /\ hist.event = "next"
    /\ hist.current = 0
    /\ currentWindow = 1
    /\ totalWindows = 3
    /\ PreviousTarget = 0

\* C24: whenever the series held has points, the visible data have points
C24_VisibleDataNonEmpty == Len(historical) > 0 => Len(visibleData) > 0

\* C26: an arrow clicked while a zoom range is set leaves the range and the
\* visible data as it found them, and the click that clears a range leaves
\* the window index that the arrows set while the range was held
C26_NavigationKeepsZoom ==
    /\ (hist.event \in {"previous", "next"} /\ hist.zoomed) =>
          /\ zoomRange = hist.range
          /\ visibleData = hist.data
    /\ (hist.event = "click" /\ hist.zoomed /\ ~zoomRange.active) =>
          /\ windowStart = hist.window
          /\ currentWindow = hist.current
          /\ visibleMonths = Slice(months, hist.current, hist.current + 4)

\* an arrow moved the window while a zoom range was set
C26_Witness ==
    /\ hist.event \in {"previous", "next"}
    /\ hist.zoomed
    /\ zoomRange.active
    /\ currentWindow # hist.current
    /\ Len(visibleData) = 7

\* C27: on one series the right arrow is undone by the left one and the left
\* by the right; the default window is the last one, and from every window
\* but the first the left arrow is enabled and leads to the window before,
\* so that every window is reached from the default one
C27_PagingReversible ==
    /\ hist.event = "next" =>
          /\ chartShown /\ ~PreviousDisabled
          /\ PreviousTarget = hist.current
    /\ hist.event = "previous" =>
          /\ chartShown /\ ~NextDisabled
          /\ NextTarget = hist.current
    /\ defaultWindow = totalWindows - 1
    /\ currentWindow > 0 => ~PreviousDisabled /\ PreviousTarget = currentWindow - 1
    /\ currentWindow < totalWindows - 1 => ~NextDisabled /\ NextTarget = currentWindow + 1

\* the first of seven windows was reached from the default one, the last
C27_Witness ==
    /\ hist.event = "previous"
    /\ totalWindows = 7
    /\ defaultWindow = 6
    /\ currentWindow = 0

\* C28: once no request is in flight the result held, if any, is the
\* response to the search issued last, and loading is true for as long as a
\* request is in flight
C28_LatestSearchWins ==
    /\ (InFlight = 0 /\ ~result.isNull) => result.latest
    /\ InFlight > 0 => loading

\* C29: a request that settles leaves loading false, and either it succeeded
\* and the result is its response with no error message, or it failed and
\* there is no result and an error message
C29_SearchOutcome ==
    /\ hist.event = "response" => (~loading /\ ~result.isNull /\ error = "")
    /\ hist.event = "failure" => (~loading /\ result.isNull /\ error # "")

\* C30: a search with an empty or blank query sets the error message and
\* leaves the requests in flight, loading, the result, the window index and
\* the zoom range as it found them
C30_BlankQuery ==
    (hist.event \in {"search", "enter"} /\ Trim(query) = <<>>) =>
        /\ error = EmptyQueryError
        /\ pending = hist.app.pending
        /\ loading = hist.app.loading
        /\ result = hist.app.result
        /\ windowStart = hist.window
        /\ currentWindow = hist.current
        /\ zoomRange = hist.range

\* Enter was pressed on a query of one space while a zoomed series was shown
C30_Witness ==
    /\ hist.event = "enter"
    /\ query = <<" ">>
    /\ error = EmptyQueryError
    /\ ~loading
    /\ InFlight = 0
    /\ chartShown
    /\ zoomRange.active
    /\ currentWindow = 1

====
